---- MODULE Spec2Model ----
(***************************************************************************)
(* Support distribution machine (sdm.py): the parallel grid search         *)
(* tune_params, the transductive routine transduct, the inductive          *)
(* estimator SupportDistributionMachine and the crossvalidate loop.        *)
(*                                                                         *)
(* Numbers that the code multiplies (sigma candidates, the median of the   *)
(* divergences, C candidates) are exact rationals <<num, den>> in lowest   *)
(* terms.  Indices are 1-based here and 0-based in the source.             *)
(***************************************************************************)
EXTENDS Integers, Sequences, FiniteSets, TLC

VARIABLES
    \* ---- tune_params and its caller ----
    grid_obj,      \* the values held by the grid object the caller passes as sigma_vals
    grid_given,    \* the candidates the caller put in that object when it built it
    grid_is_array, \* TRUE: the object is an ndarray (CLI, np.sort); FALSE: a tuple
    C_given,       \* the caller's C candidates
    scale_sigma,   \* the caller's scale_sigma option
    calls,         \* number of tune_params calls started so far
    tpc,           \* position of the tune_params call
    divs,          \* the divs argument of the current call
    C_vals,        \* local C_vals after np.asarray
    sigma_vals,    \* local sigma_vals after np.asarray and scaling
    scores,        \* the C x sigma x fold score table
    nsub,          \* number of apply_async calls made so far
    pending,       \* tasks submitted to the pool and not yet completed
    raised,        \* tasks whose try_params raised in the worker
    ret,           \* the returned tuple, <<first, second>>
    \* ---- SupportDistributionMachine and transduct ----
    est,           \* the estimator's fitted attributes: name -> value, set ones only
    ever_fit,      \* a fit call on est has succeeded
    fit_call,      \* the last fit call: its arguments and what it handed on
    pred_call,     \* the last predict call: its arguments and its outcome
    trans_call,    \* the last transduct call: its arguments and its outcome
    \* ---- crossvalidate ----
    xval,          \* the crossvalidate call: its arguments, position and locals
    \* ---- arrays ----
    heap,          \* the arrays alive at the end of the last call on a caller's matrix
    frame_call,    \* that call: the function, its options, the matrix before the call
    psd_call,      \* the last project_psd call on a matrix of numbers, with its result
    settings_call  \* the last call given estimation settings, and the settings it used

tuneVars == <<grid_obj, grid_given, grid_is_array, C_given, scale_sigma, calls,
              tpc, divs, C_vals, sigma_vals, scores, nsub, pending, raised, ret>>

\* the options shared by tune_params' callers
optVars == <<grid_given, grid_is_array, C_given, scale_sigma>>

\* the state of one running tune_params call
callVars == <<tpc, divs, C_vals, sigma_vals, scores, nsub, pending, raised, ret>>

protoVars == <<est, ever_fit, fit_call, pred_call, trans_call>>

frameVars == <<heap, frame_call, psd_call, settings_call>>

vars == <<tuneVars, protoVars, xval, frameVars>>

-----------------------------------------------------------------------------
(* Bounds of the model *)

\* number of successive tune_params calls that are given the same grid object
MaxCalls == 2

-----------------------------------------------------------------------------
(* Exact arithmetic *)

RECURSIVE GCD(_, _)
GCD(a, b) == IF b = 0 THEN a ELSE GCD(b, a % b)

Rat(n, d) == LET g == GCD(n, d) IN <<n \div g, d \div g>>

RMul(a, b) == Rat(a[1] * b[1], a[2] * b[2])

RAdd(a, b) == Rat(a[1] * b[2] + b[1] * a[2], a[2] * b[2])

RLeq(a, b) == a[1] * b[2] <= b[1] * a[2]

RMin(a, b) == IF RLeq(a, b) THEN a ELSE b

RMax(a, b) == IF RLeq(a, b) THEN b ELSE a

\* np.nan in the score table: accuracies are >= 0, the marker is below them
NaN == -1

\* no value returned yet
None == <<>>

\* no call of an operation has been made, or its result is gone
NoCall == [stage |-> "none", ok |-> FALSE]

-----------------------------------------------------------------------------
(* Inputs *)

\* divergence matrices handed to tune_params: non-negative, zero diagonal,
\* not symmetric
DivsInputs ==
    { << <<0, 2, 3>>, <<1, 0, 4>>, <<2, 6, 0>> >>,
      << <<0, 2, 2>>, <<2, 0, 4>>, <<4, 4, 0>> >> }

\* caller grids: one or two candidates each
SigmaGrids == { << Rat(1, 1) >>, << Rat(1, 1), Rat(3, 1) >> }

CGrids == { << Rat(2, 1) >>, << Rat(2, 1), Rat(5, 1) >> }

\* tuning folds (num_folds)
TuningFolds == {1, 2}

\* accuracies a fold can report: np.mean(preds == labels[test]) as a level
Accs == {0, 1}

-----------------------------------------------------------------------------
(* tune_params *)

\* divs[divs > 0], flattened in row-major order
PositiveEntries(d) ==
    LET n == Len(d)
        flat == [k \in 1..(n * n) |-> d[((k - 1) \div n) + 1][((k - 1) % n) + 1]]
    IN  SelectSeq(flat, LAMBDA x : x > 0)

\* k-th smallest element of a sequence of integers
Kth(s, k) ==
    CHOOSE v \in {s[i] : i \in 1..Len(s)} :
        /\ Cardinality({i \in 1..Len(s) : s[i] < v}) < k
        /\ Cardinality({i \in 1..Len(s) : s[i] <= v}) >= k

\* np.median: the middle element, or the mean of the two middle elements
Median(s) ==
    LET n == Len(s)
    IN  IF n % 2 = 1 THEN Rat(Kth(s, (n + 1) \div 2), 1)
        ELSE Rat(Kth(s, n \div 2) + Kth(s, (n \div 2) + 1), 2)

\* sigma_vals *= np.median(divs[divs > 0])
ScaleSigmas(sv, d) == [i \in 1..Len(sv) |-> RMul(sv[i], Median(PositiveEntries(d)))]

\* the tasks, in the order of itertools.product(C, sigma) with the folds inside
Triples == {<<c, s, f>> : c \in 1..Len(C_vals), s \in 1..Len(sigma_vals), f \in TuningFolds}

NumJobs == Len(C_vals) * Len(sigma_vals) * Cardinality(TuningFolds)

JobAt(k) ==
    LET nf == Cardinality(TuningFolds)
        ns == Len(sigma_vals)
    IN  << ((k - 1) \div (nf * ns)) + 1, (((k - 1) \div nf) % ns) + 1, ((k - 1) % nf) + 1 >>

\* lines 171-174: the local sigma_vals of a call on divs d
SigmaLocal(d) == IF scale_sigma THEN ScaleSigmas(grid_obj, d) ELSE grid_obj

\* np.asarray hands an ndarray back as it is, so `*=` writes into the caller's
\* object; a tuple is copied
GridAfter(d) == IF grid_is_array THEN SigmaLocal(d) ELSE grid_obj

\* what a call with these local grids can return: line 178 when both hold one
\* candidate, line 235 (any pair, by the scores) otherwise
ReturnsFor(cv, sv) ==
    IF Len(cv) <= 1 /\ Len(sv) <= 1
    THEN {<<cv[1], sv[1]>>}
    ELSE {<<sv[s], cv[c]>> : c \in 1..Len(cv), s \in 1..Len(sv)}

\* lines 171-206: asarray, scaling, the degenerate return, the empty score table
tune_params_enter(d) ==
    LET sv == SigmaLocal(d)
    IN  /\ divs' = d
        /\ C_vals' = C_given
        /\ sigma_vals' = sv
        /\ grid_obj' = GridAfter(d)
        /\ nsub' = 0
        /\ pending' = {}
        /\ raised' = {}
        /\ IF Len(C_given) <= 1 /\ Len(sv) <= 1
           THEN /\ ret' \in ReturnsFor(C_given, sv)
                /\ tpc' = "returned"
                /\ scores' = <<>>
           ELSE /\ ret' = None
                /\ tpc' = "submitting"
                /\ scores' = [t \in {<<c, s, f>> : c \in 1..Len(C_given),
                                                  s \in 1..Len(sv),
                                                  f \in TuningFolds} |-> NaN]

TuneCall ==
    /\ tpc \in {"idle", "returned"}
    /\ calls < MaxCalls
    /\ calls' = calls + 1
    /\ \E d \in DivsInputs : tune_params_enter(d)
    /\ UNCHANGED <<grid_given, grid_is_array, C_given, scale_sigma, protoVars, xval, frameVars>>

\* line 223: pool.apply_async(try_params, ..., callback=set_res); the result
\* object is dropped
Submit ==
    /\ tpc = "submitting"
    /\ nsub < NumJobs
    /\ nsub' = nsub + 1
    /\ pending' = pending \cup {JobAt(nsub + 1)}
    /\ UNCHANGED <<grid_obj, grid_given, grid_is_array, C_given, scale_sigma, calls,
                   tpc, divs, C_vals, sigma_vals, scores, raised, ret, protoVars, xval, frameVars>>

\* a callback that leaves the fold index out of the cell it writes
assign_score_first_fold(t, val) == [scores EXCEPT ![<<t[1], t[2], 1>>] = val]

\* _assign_score: scores[C_idx, sigma_idx, f_idx] = val
assign_score(t, val) == [scores EXCEPT ![t] = val]

\* try_params returns an accuracy; the pool calls the callback with it
TaskDone ==
    /\ \E t \in pending : \E val \in Accs :
        /\ scores' = assign_score(t, val)
        /\ pending' = pending \ {t}
    /\ UNCHANGED <<grid_obj, grid_given, grid_is_array, C_given, scale_sigma, calls,
                   tpc, divs, C_vals, sigma_vals, nsub, raised, ret, protoVars, xval, frameVars>>

\* clf.fit or clf.predict raises inside try_params: the exception is stored
\* in the dropped result object and no callback runs
TaskRaise ==
    /\ \E t \in pending :
        /\ raised' = raised \cup {t}
        /\ pending' = pending \ {t}
    /\ UNCHANGED <<grid_obj, grid_given, grid_is_array, C_given, scale_sigma, calls,
                   tpc, divs, C_vals, sigma_vals, scores, nsub, ret, protoVars, xval, frameVars>>

\* leaving the with block: close and join, which waits for every task
PoolDrained == nsub = NumJobs /\ pending = {}

\* scores.mean(axis=-1): NaN as soon as one fold is NaN; the mean is kept as
\* the sum over the folds (same order)
cv_means(sc, c, s) ==
    IF \E f \in TuningFolds : sc[<<c, s, f>>] = NaN THEN NaN
    ELSE LET RECURSIVE Sum(_)
             Sum(F) == IF F = {} THEN 0
                       ELSE LET f == CHOOSE x \in F : TRUE
                            IN  sc[<<c, s, f>>] + Sum(F \ {f})
         IN  Sum(TuningFolds)

\* position of (c, s) in the flattened (C, sigma) array
FlatIndex(c, s) == (c - 1) * Len(sigma_vals) + s

Pairs == {<<c, s>> : c \in 1..Len(C_vals), s \in 1..Len(sigma_vals)}

\* is mean a at least mean b in np.argmax's order (NaN counts as the maximum)
ArgmaxGeq(a, b) == IF a = NaN THEN TRUE ELSE IF b = NaN THEN FALSE ELSE a >= b

\* np.unravel_index(cv_means.argmax(), cv_means.shape): the first position
\* of the flattened array that holds the maximum
argmax(sc) ==
    CHOOSE p \in Pairs :
        /\ \A q \in Pairs : ArgmaxGeq(cv_means(sc, p[1], p[2]), cv_means(sc, q[1], q[2]))
        /\ \A q \in Pairs :
              ArgmaxGeq(cv_means(sc, q[1], q[2]), cv_means(sc, p[1], p[2]))
                  => FlatIndex(p[1], p[2]) <= FlatIndex(q[1], q[2])

\* lines 232-235
Select ==
    /\ tpc = "submitting"
    /\ PoolDrained
    /\ LET best == argmax(scores)
       IN  ret' = <<sigma_vals[best[2]], C_vals[best[1]]>>
    /\ tpc' = "returned"
    /\ UNCHANGED <<grid_obj, grid_given, grid_is_array, C_given, scale_sigma, calls,
                   divs, C_vals, sigma_vals, scores, nsub, pending, raised, protoVars, xval, frameVars>>

Init ==
    /\ grid_given \in SigmaGrids
    /\ grid_obj = grid_given
    /\ grid_is_array \in BOOLEAN
    /\ C_given \in CGrids
    /\ scale_sigma \in BOOLEAN
    /\ calls = 0
    /\ tpc = "idle"
    /\ divs = <<>>
    /\ C_vals = <<>>
    /\ sigma_vals = <<>>
    /\ scores = <<>>
    /\ nsub = 0
    /\ pending = {}
    /\ raised = {}
    /\ ret = None
    /\ est = <<>>
    /\ ever_fit = FALSE
    /\ fit_call = NoCall
    /\ pred_call = NoCall
    /\ trans_call = NoCall
    /\ xval = [pc |-> "idle"]
    /\ heap = [ref |-> <<>>, mem |-> <<>>]
    /\ frame_call = [fn |-> "none", destroy |-> FALSE, before |-> [of |-> <<>>, ops |-> <<>>],
                     folds_left |-> 0, project_all |-> FALSE, search |-> FALSE, nsigma |-> 1]
    /\ psd_call = [called |-> FALSE]
    /\ settings_call = [fn |-> "none", given |-> <<>>, used |-> <<>>]

TuneNext == TuneCall \/ Submit \/ TaskDone \/ TaskRaise \/ Select

TuneSpec == Init /\ [][TuneNext]_vars

\* the first tune_params call of a caller
TuneCallOnce ==
    /\ tpc = "idle"
    /\ calls = 0
    /\ calls' = calls + 1
    /\ \E d \in DivsInputs : tune_params_enter(d)
    /\ UNCHANGED <<grid_given, grid_is_array, C_given, scale_sigma, protoVars, xval, frameVars>>

TuneOnceNext == TuneCallOnce \/ Submit \/ TaskDone \/ TaskRaise \/ Select

TuneOnceSpec == Init /\ [][TuneOnceNext]_vars


-----------------------------------------------------------------------------
(* Bags, divergences and kernels *)

\* the divergence estimator (get_divs): a directional value for each ordered
\* pair of bags, distinct for distinct pairs, zero from a bag to itself
Div(a, b) == IF a = b THEN 0 ELSE 10 * a + b

DivMatrix(items) ==
    [i \in 1..Len(items) |-> [j \in 1..Len(items) |-> Div(items[i], items[j])]]

Shape(m) == <<Len(m), IF Len(m) = 0 THEN 0 ELSE Len(m[1])>>

\* m[np.ix_(rows, cols)]
Block(m, rows, cols) ==
    [i \in 1..Len(rows) |-> [j \in 1..Len(cols) |-> m[rows[i]][cols[j]]]]

IndexSeq(lo, hi) == [i \in 1..(hi - lo + 1) |-> lo + i - 1]

\* a Python sequence of bags: a list, a tuple, or one bag (an ndarray of points)
PyList(items) == [kind |-> "list", items |-> items]

\* len(): the number of bags of a list or tuple, the number of points of a bag
PyLen(x, npoints) == IF x.kind = "bag" THEN npoints ELSE Len(x.items)

\* list + x: a list is concatenated with a list only
CanConcat(a, b) == a.kind = b.kind /\ a.kind # "bag"

\* np.squeeze of a label vector: a single label becomes 0-dimensional
SqueezedShape(y) == IF Len(y) = 1 THEN <<>> ELSE <<Len(y)>>

\* make_km: the PSD projection of exp(-(d / sigma)^2 / 2), taken over all of d
make_km(d, sigma) == [gauss_of |-> d, sigma |-> sigma]

\* km[np.ix_(rows, cols)]
KmBlock(km, rows, cols) == [km |-> km, rows |-> rows, cols |-> cols]

\* split_km reading the test block's columns at the test positions
split_km_test_columns(km, train_idx, test_idx) ==
    <<[km |-> km, rows |-> train_idx, cols |-> train_idx],
      [km |-> km, rows |-> test_idx, cols |-> test_idx]>>

\* split_km
split_km(km, train_idx, test_idx) ==
    <<KmBlock(km, train_idx, train_idx), KmBlock(km, test_idx, train_idx)>>

\* what the tuner, called by fit or transduct on divs d, can do: return a pair
\* or raise (KFold, eigh or the pool failing)
TuneOutcomes(d) == ReturnsFor(C_given, SigmaLocal(d)) \cup {<<>>}

-----------------------------------------------------------------------------
(* SupportDistributionMachine *)

Has(e, attr) == attr \in DOMAIN e

SetAttr(e, attr, v) == (attr :> v) @@ e

\* every position taken as labeled, the sentinel not excluded
AllPositions(y) == [i \in 1..Len(y) |-> i]

\* y != -1, as the ascending positions
Labeled(y) == SelectSeq(IndexSeq(1, Len(y)), LAMBDA i : y[i] # -1)

\* `self.svm_ = clf` placed before clf.fit: a failing fit leaves svm_ set
SvmStoredBeforeFit(e2, e3) == e3

\* lines 359-360: clf.fit raises before `self.svm_ = clf` is reached; e2 is the
\* estimator before the assignment and e3 after it
FitRaisedAtSvm(e2, e3) == e2

\* fit (lines 301-360) on estimator e: X a sequence of bags, y the labels,
\* dv the passed divs (given) or None; tout the outcome of the tuner and
\* svm_ok whether the final clf.fit returns.  The result holds the estimator
\* afterwards, the stage reached and what was handed to the tuner, the
\* projection and the SVM.
fit(e, X, y, given, dv, npoints, tout, svm_ok) ==
    LET n_bags == PyLen(X, npoints)
        train_idx == Labeled(y)
        train_y == [i \in 1..Len(train_idx) |-> y[train_idx[i]]]
        bags_ == [i \in 1..Len(train_idx) |-> X.items[train_idx[i]]]
        e1 == SetAttr(e, "train_bags_", bags_)
        d == IF given THEN dv ELSE DivMatrix(X.items)
        tuned == Block(d, train_idx, train_idx)
        e2 == SetAttr(SetAttr(e1, "sigma_", tout[1]), "C_", tout[2])
        km == make_km(d, tout[1])
        train_km == KmBlock(km, train_idx, train_idx)
        e3 == SetAttr(e2, "svm_", [C |-> tout[2], km |-> train_km, labels |-> train_y])
        base == [X |-> X.items, y |-> y, est |-> e, stage |-> "assert_y", ok |-> FALSE,
                 tuner_called |-> FALSE, estimated |-> FALSE, tuned_divs |-> <<>>,
                 tuned_labels |-> <<>>, tuned_ret |-> <<>>, km |-> <<>>,
                 fit_km |-> <<>>, fit_labels |-> <<>>]
    IN  IF \/ SqueezedShape(y) # <<n_bags>>
           \/ \E i \in 1..Len(y) : y[i] < -1
           \/ Len(train_idx) < 2
        THEN base
        ELSE IF given /\ Shape(dv) # <<n_bags, n_bags>>
        THEN [base EXCEPT !.est = e1, !.stage = "assert_divs"]
        ELSE IF tout = <<>>
        THEN [base EXCEPT !.est = e1, !.stage = "tune", !.tuner_called = TRUE,
                          !.estimated = ~given,
                          !.tuned_divs = tuned, !.tuned_labels = train_y]
        ELSE IF ~svm_ok
        THEN [base EXCEPT !.est = FitRaisedAtSvm(e2, e3), !.stage = "svm",
                          !.tuner_called = TRUE, !.estimated = ~given,
                          !.tuned_divs = tuned, !.tuned_labels = train_y, !.tuned_ret = tout,
                          !.km = km, !.fit_km = train_km, !.fit_labels = train_y]
        ELSE [base EXCEPT !.est = e3, !.stage = "done", !.ok = TRUE, !.tuner_called = TRUE,
                          !.estimated = ~given,
                          !.tuned_divs = tuned, !.tuned_labels = train_y, !.tuned_ret = tout,
                          !.km = km, !.fit_km = train_km, !.fit_labels = train_y]

\* line 379: (divs[-n_test:, :n_train] + divs[:n_train, -n_test].T) / 2; the
\* second operand is one column, broadcast over the rows of the first
CrossDivs(d, n_train, n_test) ==
    [j \in 1..n_test |-> [i \in 1..n_train |->
        Rat(d[n_train + j][i] + d[i][n_train + 1], 2)]]

\* predict (lines 362-394) on estimator e: data the new bags, dv the passed
\* divs (given) or None; preds what the SVM's predict returns
predict(e, data, given, dv, npoints, preds) ==
    LET n_train == Len(e["train_bags_"])
        n_test == PyLen(data, npoints)
        all == e["train_bags_"] \o data.items
        d == IF given THEN [j \in 1..Len(dv) |-> [i \in 1..Len(dv[j]) |-> Rat(dv[j][i], 1)]]
             ELSE CrossDivs(DivMatrix(all), n_train, n_test)
        base == [data |-> data.items, given |-> given, stage |-> "raised", ok |-> FALSE,
                 estimated |-> FALSE,
                 to_gauss |-> <<>>, sigma |-> <<>>, preds |-> <<>>]
    IN  IF ~Has(e, "train_bags_") THEN base
        ELSE IF ~given /\ ~CanConcat(PyList(e["train_bags_"]), data) THEN base
        ELSE IF given /\ Shape(dv) # <<n_test, n_train>> THEN [base EXCEPT !.estimated = ~given]
        ELSE IF ~Has(e, "sigma_") THEN [base EXCEPT !.estimated = ~given]
        ELSE IF ~Has(e, "svm_")
        THEN [base EXCEPT !.estimated = ~given, !.to_gauss = d, !.sigma = e["sigma_"]]
        ELSE [base EXCEPT !.estimated = ~given, !.to_gauss = d, !.sigma = e["sigma_"],
                          !.stage = "done", !.ok = TRUE, !.preds = [j \in 1..n_test |-> preds[j]]]

\* transduct (lines 424-482): tout the outcome of the tuner, svm_ok whether
\* the final clf.fit returns, preds what clf.predict returns
transduct(train_bags, train_labels, test_bags, given, dv, npoints, tout, svm_ok, preds) ==
    LET num_train == PyLen(train_bags, npoints)
        d == IF given THEN dv ELSE DivMatrix(train_bags.items \o test_bags.items)
        n_bags == PyLen(train_bags, npoints) + PyLen(test_bags, npoints)
        tuned == Block(d, IndexSeq(1, num_train), IndexSeq(1, num_train))
        km == make_km(d, tout[1])
        kms == split_km(km, IndexSeq(1, num_train), IndexSeq(num_train + 1, Len(d)))
        base == [train |-> train_bags.items, test |-> test_bags.items,
                 train_labels |-> train_labels, stage |-> "assert_labels", ok |-> FALSE,
                 tuner_called |-> FALSE, estimated |-> FALSE, divs |-> <<>>,
                 tuned_divs |-> <<>>, tuned_labels |-> <<>>, tuned_ret |-> <<>>,
                 km |-> <<>>, fit_km |-> <<>>, fit_labels |-> <<>>, fit_C |-> <<>>,
                 predict_km |-> <<>>, preds |-> <<>>]
        upto_tune == [base EXCEPT !.stage = "tune", !.tuner_called = TRUE,
                                  !.estimated = ~given, !.divs = d,
                                  !.tuned_divs = tuned, !.tuned_labels = train_labels]
        upto_svm == [upto_tune EXCEPT !.stage = "svm", !.tuned_ret = tout,
                                      !.km = km, !.fit_km = kms[1],
                                      !.fit_labels = train_labels, !.fit_C = tout[2]]
    IN  IF SqueezedShape(train_labels) # <<num_train>> THEN base
        ELSE IF ~given /\ ~CanConcat(train_bags, test_bags)
        THEN [base EXCEPT !.stage = "concat"]
        ELSE IF given /\ Shape(dv) # <<n_bags, n_bags>>
        THEN [base EXCEPT !.stage = "assert_divs"]
        ELSE IF tout = <<>> THEN upto_tune
        ELSE IF ~svm_ok THEN upto_svm
        ELSE [upto_svm EXCEPT !.stage = "done", !.ok = TRUE, !.predict_km = kms[2],
                              !.preds = [j \in 1..(Len(d) - num_train) |-> preds[j]]]

-----------------------------------------------------------------------------
(* Calls of the estimator and of transduct *)

\* class labels
Classes == {0, 1}

\* points per bag
BagPoints == {1, 3}

\* what the SVM's predict may answer for n test bags
SvmAnswers(n) == [1..n -> Classes]

\* the bag arguments below are lists, whose len() does not look at the points
ListPoints == CHOOSE np \in BagPoints : TRUE

FitInputs ==
    { [X |-> <<1, 2, 3>>, y |-> <<0, 1, 1>>],
      [X |-> <<1, 2, 3>>, y |-> <<0, -1, -1>>],
      [X |-> <<3, 1, 4, 2>>, y |-> <<-1, 0, 1, 0>>] }

\* the divs argument: None, a matrix of the bags, a matrix of the wrong shape
DivsArgs == {"none", "square", "misshaped"}

FitDivs(arg, X) == IF arg = "square" THEN DivMatrix(X) ELSE DivMatrix(<<1, 2>>)

Fit ==
    /\ calls < MaxCalls
    /\ \E inp \in FitInputs, arg \in DivsArgs :
         LET X == PyList(inp.X)
             np == ListPoints
             given == arg # "none"
             dv == FitDivs(arg, inp.X)
             pre == fit(est, X, inp.y, given, dv, np, <<>>, FALSE)
         IN  IF pre.stage # "tune"
             THEN /\ est' = pre.est
                  /\ fit_call' = pre
                  /\ UNCHANGED <<ever_fit, grid_obj, calls>>
             ELSE \E tout \in TuneOutcomes(pre.tuned_divs), svm_ok \in BOOLEAN :
                    LET r == fit(est, X, inp.y, given, dv, np, tout, svm_ok)
                    IN  /\ est' = r.est
                        /\ fit_call' = r
                        /\ ever_fit' = (ever_fit \/ r.ok)
                        /\ grid_obj' = GridAfter(pre.tuned_divs)
                        /\ calls' = calls + 1
    /\ pred_call' = NoCall
    /\ UNCHANGED <<optVars, callVars, trans_call, xval, frameVars>>

PredictData == { PyList(<<5>>), PyList(<<5, 6>>) }

\* the passed divs of predict: test x train, or one column too many
PredictDivs(arg, data) ==
    IF Has(est, "train_bags_")
    THEN LET tb == est["train_bags_"]
             w == Len(tb) + (IF arg = "square" THEN 0 ELSE 1)
         IN  [j \in 1..Len(data) |-> [i \in 1..w |->
                 IF i <= Len(tb) THEN Div(data[j], tb[i]) ELSE 0]]
    ELSE << <<0>> >>

Predict ==
    /\ \E data \in PredictData, arg \in DivsArgs :
         \E preds \in SvmAnswers(Len(data.items)) :
            pred_call' = predict(est, data, arg # "none", PredictDivs(arg, data.items),
                                 ListPoints, preds)
    /\ fit_call' = NoCall
    /\ UNCHANGED <<tuneVars, est, ever_fit, trans_call, xval, frameVars>>

TransductInputs ==
    { [train |-> <<1, 2, 3>>, labels |-> <<0, 1, 1>>, test |-> <<4, 5>>],
      [train |-> <<2, 1, 3>>, labels |-> <<1, 0, 0>>, test |-> <<4>>],
      [train |-> <<1, 2, 3>>, labels |-> <<0, 1>>, test |-> <<4, 5>>] }

TransductDivs(arg, inp) ==
    IF arg = "square" THEN DivMatrix(inp.train \o inp.test) ELSE DivMatrix(inp.train)

Transduct ==
    /\ calls < MaxCalls
    /\ \E inp \in TransductInputs, arg \in DivsArgs :
         LET tr == PyList(inp.train)
             np == ListPoints
             te == PyList(inp.test)
             given == arg # "none"
             dv == TransductDivs(arg, inp)
             pre == transduct(tr, inp.labels, te, given, dv, np, <<>>, FALSE, <<>>)
         IN  IF pre.stage # "tune"
             THEN /\ trans_call' = pre
                  /\ UNCHANGED <<grid_obj, calls>>
             ELSE \E tout \in TuneOutcomes(pre.tuned_divs), svm_ok \in BOOLEAN,
                     preds \in SvmAnswers(Len(inp.test)) :
                    /\ trans_call' = transduct(tr, inp.labels, te, given, dv, np,
                                               tout, svm_ok, preds)
                    /\ grid_obj' = GridAfter(pre.tuned_divs)
                    /\ calls' = calls + 1
    /\ UNCHANGED <<optVars, callVars, est, ever_fit, fit_call, pred_call, xval, frameVars>>

\* one estimator object and its callers
EstNext == Fit \/ Predict

EstSpec == Init /\ [][EstNext]_vars

\* successive transduct calls with the same options
TransNext == Transduct

TransSpec == Init /\ [][TransNext]_vars

-----------------------------------------------------------------------------
(* crossvalidate *)

\* the ascending sequence of the elements of a set of integers
Ascending(S) ==
    CHOOSE q \in [1..Cardinality(S) -> S] : \A a, b \in 1..Cardinality(S) : a < b => q[a] < q[b]

\* KFold(n, n_folds): the first n % n_folds folds hold one index more
FoldSize(n, k, f) == (n \div k) + (IF f <= n % k THEN 1 ELSE 0)

\* KFold(n, n_folds, shuffle=True): the test sets are consecutive chunks of a
\* random permutation, so any split of 1..n into sets of the fold sizes
KFold(n, k) ==
    {F \in [1..k -> SUBSET (1..n)] :
        /\ \A f \in 1..k : Cardinality(F[f]) = FoldSize(n, k, f)
        /\ \A f, g \in 1..k : f # g => F[f] \cap F[g] = {}}

\* itemgetter(*idx)(bags): one index gives the bag itself, several a tuple
itemgetter(idx, bags) ==
    IF Len(idx) = 1
    THEN [kind |-> "bag", items |-> <<bags[idx[1]]>>]
    ELSE [kind |-> "tuple", items |-> [j \in 1..Len(idx) |-> bags[idx[j]]]]

\* numbers of bags and of folds of the calls considered
CVBagCounts == {2, 3, 4}

CVFoldCounts == {2, 3}

\* lines 508-536, with the folds of line 539 drawn here
CVStart ==
    /\ xval.pc = "idle"
    /\ \E n \in CVBagCounts, k \in CVFoldCounts, project_all \in BOOLEAN,
          np \in BagPoints, given \in BOOLEAN :
         /\ n >= k
         /\ \E F \in KFold(n, k) :
              xval' = [pc |-> "loop", bags |-> [i \in 1..n |-> i],
                     labels |-> [i \in 1..n |-> i % 2], num_folds |-> k,
                     project_all |-> project_all, npoints |-> np, given |-> given,
                     divs |-> DivMatrix([i \in 1..n |-> i]),
                     folds |-> F, i |-> 1, preds |-> [i \in 1..n |-> -1],
                     writes |-> [i \in 1..n |-> 0], err |-> "", acc |-> <<>>,
                     estimations |-> IF given THEN 0 ELSE 1, fold_estimations |-> 0]
    /\ UNCHANGED <<tuneVars, protoVars, frameVars>>

\* preds[test] = answers, for one fold
WritePreds(test, answers) ==
    [xval EXCEPT !.preds = [i \in 1..Len(xval.preds) |->
                             IF \E j \in 1..Len(test) : test[j] = i
                             THEN answers[CHOOSE j \in 1..Len(test) : test[j] = i]
                             ELSE xval.preds[i]],
               !.writes = [i \in 1..Len(xval.preds) |->
                             xval.writes[i] + Cardinality({j \in 1..Len(test) : test[j] = i})],
               !.i = xval.i + 1]

\* the call ends with an exception: from the SVM or the tuner (a
\* collaborator), or from the named place of this code
CVRaise(stage) ==
    [xval EXCEPT !.pc = "raised",
               !.err = IF stage \in {"tune", "svm"} THEN "collaborator" ELSE stage]

\* get_divs was invoked k times inside a fold
FoldEstimated(x, k) == [x EXCEPT !.fold_estimations = @ + k]

\* lines 538-550: one fold with project_all
CVFoldTransduct ==
    /\ xval.pc = "loop" /\ xval.i <= xval.num_folds /\ xval.project_all
    /\ LET test == Ascending(xval.folds[xval.i])
           train == Ascending((1..Len(xval.bags)) \ xval.folds[xval.i])
           train_bags == itemgetter(train, xval.bags)
           train_labels == [j \in 1..Len(train) |-> xval.labels[train[j]]]
           test_bags == itemgetter(test, xval.bags)
           both == train \o test
           dv == Block(xval.divs, both, both)
           pre == transduct(train_bags, train_labels, test_bags, TRUE, dv, xval.npoints,
                            <<>>, FALSE, <<>>)
       IN  IF pre.stage # "tune"
           THEN /\ xval' = CVRaise(pre.stage)
                /\ UNCHANGED grid_obj
           ELSE /\ grid_obj' = GridAfter(pre.tuned_divs)
                /\ \E tout \in TuneOutcomes(pre.tuned_divs), svm_ok \in BOOLEAN,
                      answers \in SvmAnswers(Len(dv) - PyLen(train_bags, xval.npoints)) :
                     LET r == transduct(train_bags, train_labels, test_bags, TRUE, dv,
                                        xval.npoints, tout, svm_ok, answers)
                     IN  xval' = IF r.ok /\ Len(r.preds) = Len(test)
                               THEN WritePreds(test, r.preds)
                               ELSE CVRaise(IF r.ok THEN "assign" ELSE r.stage)
    /\ UNCHANGED <<optVars, calls, callVars, protoVars, frameVars>>

\* lines 551-554: one fold with a fresh estimator. When the test fold is one
\* bag, train_bags_ + data adds arrays instead of concatenating lists and
\* get_divs is called on the sum (lines 373-378); what it makes of the sum is
\* open: broadcast tells whether predict returns
CVFoldEstimator ==
    /\ xval.pc = "loop" /\ xval.i <= xval.num_folds /\ ~xval.project_all
    /\ LET test == Ascending(xval.folds[xval.i])
           train == Ascending((1..Len(xval.bags)) \ xval.folds[xval.i])
           train_bags == itemgetter(train, xval.bags)
           train_labels == [j \in 1..Len(train) |-> xval.labels[train[j]]]
           test_bags == itemgetter(test, xval.bags)
           dv == Block(xval.divs, train, train)
           pre == fit(<<>>, train_bags, train_labels, TRUE, dv, xval.npoints, <<>>, FALSE)
       IN  IF pre.stage # "tune"
           THEN /\ xval' = CVRaise(pre.stage)
                /\ UNCHANGED grid_obj
           ELSE /\ grid_obj' = GridAfter(pre.tuned_divs)
                /\ \E tout \in TuneOutcomes(pre.tuned_divs), svm_ok \in BOOLEAN,
                      answers \in SvmAnswers(PyLen(test_bags, xval.npoints)),
                      broadcast \in BOOLEAN :
                     LET r == fit(<<>>, train_bags, train_labels, TRUE, dv, xval.npoints,
                                  tout, svm_ok)
                         q == predict(r.est, test_bags, FALSE, <<>>, xval.npoints, answers)
                     IN  xval' = IF ~r.ok THEN CVRaise(r.stage)
                               ELSE IF test_bags.kind = "bag"
                               THEN FoldEstimated(
                                      IF broadcast /\ Len(answers) = Len(test)
                                      THEN WritePreds(test, answers)
                                      ELSE CVRaise(IF broadcast THEN "assign" ELSE "predict"),
                                      1)
                               ELSE FoldEstimated(
                                      IF q.ok /\ Len(q.preds) = Len(test)
                                      THEN WritePreds(test, q.preds)
                                      ELSE CVRaise(IF q.ok THEN "assign" ELSE "predict"),
                                      IF q.estimated THEN 1 ELSE 0)
    /\ UNCHANGED <<optVars, calls, callVars, protoVars, frameVars>>

\* a != b element by element, as 0 and 1
ElementwiseNe(a, b) == [i \in 1..Len(a) |-> IF a[i] # b[i] THEN 1 ELSE 0]

\* a == b element by element, as 0 and 1
ElementwiseEq(a, b) == [i \in 1..Len(a) |-> IF a[i] = b[i] THEN 1 ELSE 0]

RECURSIVE SeqSum(_)
SeqSum(a) == IF a = <<>> THEN 0 ELSE a[1] + SeqSum(Tail(a))

\* np.mean, as numerator and denominator
np_mean(a) == <<SeqSum(a), Len(a)>>

\* line 558: np.mean(preds == labels), preds
CVReturn ==
    /\ xval.pc = "loop" /\ xval.i > xval.num_folds
    /\ xval' = [xval EXCEPT !.pc = "done",
                        !.acc = np_mean(ElementwiseEq(xval.preds, xval.labels))]
    /\ UNCHANGED <<tuneVars, protoVars, frameVars>>

CVNext == CVStart \/ CVFoldTransduct \/ CVFoldEstimator \/ CVReturn

CVSpec == Init /\ [][CVNext]_vars

-----------------------------------------------------------------------------
(* Arrays: which array each name refers to, and what is done to it in place.
   An array's value is the matrix it was made from and the operations applied
   since; heap.ref gives the array a name refers to, heap.mem the values. *)

Arr(m) == [of |-> m, ops |-> <<>>]

\* name = <a new array with value v>
Alloc(st, name, v) ==
    [ref |-> (name :> (Len(st.mem) + 1)) @@ st.ref, mem |-> Append(st.mem, v)]

\* dst = src with .copy() left out
NoCopy(st, dst, src) == [st EXCEPT !.ref = (dst :> st.ref[src]) @@ @]

\* dst = src.copy()
Copy(st, dst, src) == Alloc(st, dst, st.mem[st.ref[src]])

\* dst = src, a basic slice of src or a weakref.proxy of it: the same memory
View(st, dst, src) == [st EXCEPT !.ref = (dst :> st.ref[src]) @@ @]

\* dst = op(src) for an operation that returns a new array
New(st, dst, op, src) ==
    Alloc(st, dst, [st.mem[st.ref[src]] EXCEPT !.ops = Append(@, op)])

\* name op= ..., or np.exp(name, name)
InPlace(st, name, op) == [st EXCEPT !.mem[st.ref[name]].ops = Append(@, op)]

\* project_psd (lines 61-86); low tells whether vals.min() < min_eig
project_psd(st, arg, destroy, low) ==
    LET s0 == IF destroy THEN View(st, "project_psd.mat", arg)
              ELSE Copy(st, "project_psd.mat", arg)
        s1 == InPlace(InPlace(s0, "project_psd.mat", "+= mat.T"), "project_psd.mat", "/= 2")
        s2 == New(s1, "project_psd.mat", "dot(vecs, dot(diag(maximum(vals, min_eig)), vecs.T))",
                  "project_psd.mat")
        s3 == InPlace(InPlace(s2, "project_psd.mat", "+= mat.T"), "project_psd.mat", "/= 2")
    IN  IF low THEN s3 ELSE s1

\* make_km (lines 88-96) on the arrays
make_km_arrays(st, arg, low) ==
    LET s1 == New(st, "make_km.km", "/ sigma", arg)
        s2 == InPlace(InPlace(InPlace(s1, "make_km.km", "**= 2"), "make_km.km", "/= -2"),
                      "make_km.km", "exp")
        s3 == View(s2, "make_km.proxy", "make_km.km")
    IN  project_psd(s3, "make_km.proxy", TRUE, low)

\* lines 200-201: make_km(divs, sigma) for each of the first k sigma values
RECURSIVE sigma_kms(_, _, _, _)
sigma_kms(st, arg, k, lows) ==
    IF k = 0 THEN st ELSE make_km_arrays(sigma_kms(st, arg, k - 1, lows), arg, lows[k])

\* tune_params (lines 171-201) on the arrays: search is FALSE on the path of
\* line 178, nsigma the number of sigma values
tune_params_arrays(st, arg, search, nsigma, lows) ==
    LET s1 == New(st, "tune_params.positive", "[divs > 0]", arg)
    IN  IF search THEN sigma_kms(s1, arg, nsigma, lows) ELSE s1

\* fit (lines 321-346) on the arrays, divs passed
fit_arrays(st, arg, search, nsigma, lows) ==
    LET s1 == New(st, "fit.tune_divs", "[ix_(train_idx, train_idx)]", arg)
        s2 == tune_params_arrays(s1, "fit.tune_divs", search, nsigma, lows)
        s3 == make_km_arrays(s2, arg, lows[3])
    IN  New(s3, "fit.train_km", "[ix_(train_idx, train_idx)]", "project_psd.mat")

\* predict (lines 380-388) on the arrays, divs passed
predict_arrays(st, arg) ==
    LET s1 == Copy(st, "predict.divs", arg)
    IN  InPlace(InPlace(InPlace(InPlace(s1, "predict.divs", "/= sigma_"), "predict.divs", "**= 2"),
                        "predict.divs", "/= -2"), "predict.divs", "exp")

\* transduct (lines 438-464) on the arrays, divs passed: the block given to
\* the tuner is a basic slice, which ascontiguousarray may hand on as it is
transduct_arrays(st, arg, search, nsigma, lows) ==
    LET s1 == View(st, "transduct.tune_divs", arg)
        s2 == tune_params_arrays(s1, "transduct.tune_divs", search, nsigma, lows)
        s3 == make_km_arrays(s2, arg, lows[3])
        s4 == New(s3, "transduct.train_km", "[ix_(train_idx, train_idx)]", "project_psd.mat")
    IN  New(s4, "transduct.test_km", "[ix_(test_idx, train_idx)]", "project_psd.mat")

\* lines 542-553 on the arrays: one fold of crossvalidate, divs passed
fold_arrays(st, arg, project_all, search, nsigma, lows) ==
    LET s1 == New(st, "crossvalidate.fold_divs",
                  IF project_all THEN "[ix_(both, both)]" ELSE "[ix_(train, train)]", arg)
    IN  IF project_all
        THEN transduct_arrays(s1, "crossvalidate.fold_divs", search, nsigma, lows)
        ELSE fit_arrays(s1, "crossvalidate.fold_divs", search, nsigma, lows)

\* the caller's matrix, alone on the heap
Owned(m) == Alloc([ref |-> <<>>, mem |-> <<>>], "caller", Arr(m))

Lows == [1..3 -> BOOLEAN]

NumSigmas == {1, 2}

CallProjectPsd ==
    /\ \E m \in DivsInputs, destroy \in BOOLEAN, low \in BOOLEAN :
         /\ heap' = project_psd(Owned(m), "caller", destroy, low)
         /\ frame_call' = [fn |-> "project_psd", destroy |-> destroy, before |-> Arr(m),
                          folds_left |-> 0, project_all |-> FALSE,
                          search |-> FALSE, nsigma |-> 1]
    /\ UNCHANGED <<tuneVars, protoVars, xval, psd_call, settings_call>>

CallMakeKm ==
    /\ \E m \in DivsInputs, low \in BOOLEAN :
         /\ heap' = make_km_arrays(Owned(m), "caller", low)
         /\ frame_call' = [fn |-> "make_km", destroy |-> FALSE, before |-> Arr(m),
                          folds_left |-> 0, project_all |-> FALSE,
                          search |-> FALSE, nsigma |-> 1]
    /\ UNCHANGED <<tuneVars, protoVars, xval, psd_call, settings_call>>

CallTuneParams ==
    /\ \E m \in DivsInputs, search \in BOOLEAN, nsigma \in NumSigmas, lows \in Lows :
         /\ heap' = tune_params_arrays(Owned(m), "caller", search, nsigma, lows)
         /\ frame_call' = [fn |-> "tune_params", destroy |-> FALSE, before |-> Arr(m),
                          folds_left |-> 0, project_all |-> FALSE,
                          search |-> FALSE, nsigma |-> 1]
    /\ UNCHANGED <<tuneVars, protoVars, xval, psd_call, settings_call>>

CallFit ==
    /\ \E m \in DivsInputs, search \in BOOLEAN, nsigma \in NumSigmas, lows \in Lows :
         /\ heap' = fit_arrays(Owned(m), "caller", search, nsigma, lows)
         /\ frame_call' = [fn |-> "fit", destroy |-> FALSE, before |-> Arr(m),
                          folds_left |-> 0, project_all |-> FALSE,
                          search |-> FALSE, nsigma |-> 1]
    /\ UNCHANGED <<tuneVars, protoVars, xval, psd_call, settings_call>>

CallPredict ==
    /\ \E m \in DivsInputs :
         /\ heap' = predict_arrays(Owned(m), "caller")
         /\ frame_call' = [fn |-> "predict", destroy |-> FALSE, before |-> Arr(m),
                          folds_left |-> 0, project_all |-> FALSE,
                          search |-> FALSE, nsigma |-> 1]
    /\ UNCHANGED <<tuneVars, protoVars, xval, psd_call, settings_call>>

CallTransduct ==
    /\ \E m \in DivsInputs, search \in BOOLEAN, nsigma \in NumSigmas, lows \in Lows :
         /\ heap' = transduct_arrays(Owned(m), "caller", search, nsigma, lows)
         /\ frame_call' = [fn |-> "transduct", destroy |-> FALSE, before |-> Arr(m),
                          folds_left |-> 0, project_all |-> FALSE,
                          search |-> FALSE, nsigma |-> 1]
    /\ UNCHANGED <<tuneVars, protoVars, xval, psd_call, settings_call>>

\* crossvalidate with divs passed, up to the fold loop
CallCrossvalidate ==
    /\ \E m \in DivsInputs, k \in CVFoldCounts, project_all \in BOOLEAN,
          search \in BOOLEAN, nsigma \in NumSigmas :
         /\ heap' = Owned(m)
         /\ frame_call' = [fn |-> "crossvalidate", destroy |-> FALSE, before |-> Arr(m),
                           folds_left |-> k, project_all |-> project_all,
                           search |-> search, nsigma |-> nsigma]
    /\ UNCHANGED <<tuneVars, protoVars, xval, psd_call, settings_call>>

\* one fold of that call
CrossvalidateFold ==
    /\ frame_call.fn = "crossvalidate" /\ frame_call.folds_left > 0
    /\ \E low \in BOOLEAN :
         heap' = fold_arrays(heap, "caller", frame_call.project_all, frame_call.search,
                             frame_call.nsigma, [k \in 1..3 |-> low])
    /\ frame_call' = [frame_call EXCEPT !.folds_left = @ - 1]
    /\ UNCHANGED <<tuneVars, protoVars, xval, psd_call, settings_call>>

FrameNext ==
    \/ CallProjectPsd \/ CallMakeKm \/ CallTuneParams \/ CallFit
    \/ CallPredict \/ CallTransduct \/ CallCrossvalidate \/ CrossvalidateFold

FrameSpec == Init /\ [][FrameNext]_vars

-----------------------------------------------------------------------------
(* project_psd on numbers: 2 x 2 matrices whose symmetric part is diagonal or
   has equal diagonal entries, for which eigh is exact in the rationals *)

MatT(m) == [i \in 1..2 |-> [j \in 1..2 |-> m[j][i]]]

MatAdd(a, b) == [i \in 1..2 |-> [j \in 1..2 |-> RAdd(a[i][j], b[i][j])]]

MatScale(a, r) == [i \in 1..2 |-> [j \in 1..2 |-> RMul(a[i][j], r)]]

\* np.dot
MatMul(a, b) ==
    [i \in 1..2 |-> [j \in 1..2 |-> RAdd(RMul(a[i][1], b[1][j]), RMul(a[i][2], b[2][j]))]]

\* np.diag of a vector
Diag(v) == <<<<v[1], Rat(0, 1)>>, <<Rat(0, 1), v[2]>>>>

\* np.minimum(vals, min_eig), element by element
FloorWithMinimum(vals, min_eig) == [i \in 1..Len(vals) |-> RMin(vals[i], min_eig)]

\* np.maximum(vals, min_eig), element by element
np_maximum(vals, min_eig) == [i \in 1..Len(vals) |-> RMax(vals[i], min_eig)]

\* lines 75-76 and 84-85: mat += mat.T; mat /= 2
Symmetrize(m) == MatScale(MatAdd(m, MatT(m)), Rat(1, 2))

\* scipy.linalg.eigh of a symmetric matrix of the family: the eigenvalues in
\* ascending order, and the eigenvectors as the columns of U / sqrt(q)
eigh(m) ==
    LET a == m[1][1]
        d == m[2][2]
        o == m[1][2]
        one == Rat(1, 1)
        neg == Rat(-1, 1)
        zero == Rat(0, 1)
    IN  IF o = zero
        THEN IF RLeq(a, d)
             THEN [vals |-> <<a, d>>, U |-> <<<<one, zero>>, <<zero, one>>>>, q |-> 1]
             ELSE [vals |-> <<d, a>>, U |-> <<<<zero, one>>, <<one, zero>>>>, q |-> 1]
        ELSE IF RLeq(zero, o)
             THEN [vals |-> <<RAdd(a, RMul(neg, o)), RAdd(a, o)>>,
                   U |-> <<<<one, one>>, <<neg, one>>>>, q |-> 2]
             ELSE [vals |-> <<RAdd(a, o), RAdd(a, RMul(neg, o))>>,
                   U |-> <<<<one, one>>, <<one, neg>>>>, q |-> 2]

\* vals.min()
ValsMin(vals) == RMin(vals[1], vals[2])

\* project_psd (lines 61-86) on numbers
project_psd_values(mat, min_eig) ==
    LET sym == Symmetrize(mat)
        e == eigh(sym)
        rebuilt == MatScale(MatMul(e.U, MatMul(Diag(np_maximum(e.vals, min_eig)), MatT(e.U))),
                            Rat(1, e.q))
    IN  IF ValsMin(e.vals) # min_eig /\ RLeq(ValsMin(e.vals), min_eig)
        THEN [out |-> Symmetrize(rebuilt), rebuilt |-> TRUE]
        ELSE [out |-> sym, rebuilt |-> FALSE]

Entries == -2..2

\* square inputs, symmetric or not, whose symmetric part is in the family
PsdInputs ==
    {<<<<Rat(a, 1), Rat(b, 1)>>, <<Rat(c, 1), Rat(a, 1)>>>> : a, b, c \in Entries}
        \cup {<<<<Rat(a, 1), Rat(b, 1)>>, <<Rat(-b, 1), Rat(d, 1)>>>> : a, b, d \in Entries}

MinEigs == {Rat(-1, 1), Rat(0, 1), Rat(1, 2), Rat(1, 1)}

\* one call per behaviour: the function keeps nothing between calls
CallProjectPsdValues ==
    /\ ~psd_call.called
    /\ \E mat \in PsdInputs, min_eig \in MinEigs :
         LET r == project_psd_values(mat, min_eig)
         IN  psd_call' = [called |-> TRUE, mat |-> mat, min_eig |-> min_eig,
                          out |-> r.out, rebuilt |-> r.rebuilt]
    /\ UNCHANGED <<tuneVars, protoVars, xval, heap, frame_call, settings_call>>

PsdNext == CallProjectPsdValues

PsdSpec == Init /\ [][PsdNext]_vars

-----------------------------------------------------------------------------
(* The divergence-estimation settings: fix_mode, tail, min_dist *)

\* the defaults of the keyword parameters (lines 258, 412, 504)
SettingDefaults ==
    [fix_mode |-> "FIX_MODE_DEFAULT", tail |-> "TAIL_DEFAULT", min_dist |-> "None"]

\* the settings a caller can give
SettingsGiven ==
    [fix_mode : {"FIX_MODE_DEFAULT", "other_mode"},
     tail : {"TAIL_DEFAULT", "other_tail"},
     min_dist : {"None", "some_dist"}]

\* f(**kw): the given keywords, the defaults for the others
Keywords(kw) ==
    [k \in DOMAIN SettingDefaults |-> IF k \in DOMAIN kw THEN kw[k] ELSE SettingDefaults[k]]

\* __init__ (lines 276-278): the three attributes
init_settings(args) ==
    [fix_mode |-> SettingDefaults.fix_mode, tail |-> args.tail, min_dist |-> args.min_dist]

\* the settings handed to get_divs_cache in fit (lines 316-320) and to get_divs
\* in predict (lines 373-378)
estimator_settings(self) ==
    [fix_mode |-> self.fix_mode, tail |-> self.tail, min_dist |-> self.min_dist]

\* the settings handed to get_divs_cache in transduct (lines 433-437)
transduct_settings(args) ==
    [fix_mode |-> args.fix_mode, tail |-> args.tail, min_dist |-> args.min_dist]

\* opts of crossvalidate (lines 508-513): fix_mode and tail, no min_dist
opts(args) == [fix_mode |-> args.fix_mode, tail |-> args.tail]

\* crossvalidate: the estimation before the loop (lines 526-531) when no
\* matrix is passed, then the estimations of the folds; in a fold transduct
\* and fit are handed a block of the matrix, predict is not (line 554)
crossvalidate_settings(args, given, project_all, fold_predicts) ==
    (IF given THEN <<>>
     ELSE <<[fix_mode |-> args.fix_mode, tail |-> args.tail, min_dist |-> args.min_dist]>>)
    \o (IF project_all THEN <<>>
        ELSE [i \in 1..fold_predicts |->
                 estimator_settings(init_settings(Keywords(opts(args))))])

\* SupportDistributionMachine(**args).fit(X, y)
SettingsFit ==
    /\ \E args \in SettingsGiven :
         settings_call' = [fn |-> "fit", given |-> args,
                           used |-> <<estimator_settings(init_settings(Keywords(args)))>>]
    /\ UNCHANGED <<tuneVars, protoVars, xval, heap, frame_call, psd_call>>

\* SupportDistributionMachine(**args), fitted, then predict(data)
SettingsPredict ==
    /\ \E args \in SettingsGiven :
         settings_call' = [fn |-> "predict", given |-> args,
                           used |-> <<estimator_settings(init_settings(Keywords(args)))>>]
    /\ UNCHANGED <<tuneVars, protoVars, xval, heap, frame_call, psd_call>>

\* transduct(train_bags, train_labels, test_bags, **args)
SettingsTransduct ==
    /\ \E args \in SettingsGiven :
         settings_call' = [fn |-> "transduct", given |-> args,
                           used |-> <<transduct_settings(Keywords(args))>>]
    /\ UNCHANGED <<tuneVars, protoVars, xval, heap, frame_call, psd_call>>

\* crossvalidate(bags, labels, **args); fold_predicts is the number of folds
\* whose predict reaches get_divs
SettingsCrossvalidate ==
    /\ \E args \in SettingsGiven, given \in BOOLEAN, project_all \in BOOLEAN,
          fold_predicts \in 0..2 :
         settings_call' = [fn |-> "crossvalidate", given |-> args,
                           used |-> crossvalidate_settings(Keywords(args), given,
                                                           project_all, fold_predicts)]
    /\ UNCHANGED <<tuneVars, protoVars, xval, heap, frame_call, psd_call>>

SettingsNext == SettingsFit \/ SettingsPredict \/ SettingsTransduct \/ SettingsCrossvalidate

SettingsSpec == Init /\ [][SettingsNext]_vars

-----------------------------------------------------------------------------
(* Claims about tune_params *)

Range(s) == {s[i] : i \in 1..Len(s)}

\* the call took the search path (a score table was built)
Searched == scores # <<>>

\* C1: every call returns (sigma, C): the first component is one of the
\* sigma candidates of the call and the second one of its C candidates, on
\* the search path and on the degenerate path.
C1_ReturnsSigmaThenC ==
    tpc = "returned" => (ret[1] \in Range(sigma_vals) /\ ret[2] \in Range(C_vals))

\* C2: when the fit or predict of a task raised, the call does not return a
\* pair: a returned call has no raised task.
C2_RaisedTaskAbortsCall ==
    tpc = "returned" => raised = {}

\* C3: the selection step is taken only when every task has been submitted
\* and has completed and its callback has written the table: no cell is NaN
\* at that moment.
C3_SelectAfterAllWritten ==
    [][(tpc = "submitting" /\ tpc' = "returned")
          => (PoolDrained /\ \A t \in Triples : scores[t] # NaN)]_vars

\* p has a mean accuracy, no pair has a larger one, and no pair with the
\* same one comes before p in the row-major scan
FirstMaximal(p) ==
    /\ cv_means(scores, p[1], p[2]) # NaN
    /\ \A q \in Pairs : cv_means(scores, q[1], q[2]) <= cv_means(scores, p[1], p[2])
    /\ \A q \in Pairs :
          cv_means(scores, q[1], q[2]) = cv_means(scores, p[1], p[2])
              => FlatIndex(p[1], p[2]) <= FlatIndex(q[1], q[2])

\* C4: on the search path the returned pair is the pair of maximal mean
\* accuracy, the first such pair in the row-major scan of the grid.
C4_ReturnsFirstMaximalPair ==
    (tpc = "returned" /\ Searched)
        => \E p \in Pairs : /\ FirstMaximal(p)
                            /\ ret = <<sigma_vals[p[2]], C_vals[p[1]]>>

\* C8: with scale_sigma set, the candidates used by a call are the caller's
\* candidates times the median of that call's positive divergences, once, in
\* every call of a sequence given the same grid object; and the caller's grid
\* keeps its values.
C8_ScaledOncePerCall ==
    (tpc # "idle" /\ scale_sigma)
        => (sigma_vals = ScaleSigmas(grid_given, divs) /\ grid_obj = grid_given)

\* C15: one task is submitted for each (C, sigma, fold) triple, no triple
\* twice; a callback writes the cell of its own task and no other, once; the
\* selection reads the table only. So the table and the selected pair do not
\* depend on the order in which the tasks complete.
C15_OneTaskPerTripleOneCellPerTask ==
    [][(tpc = "submitting")
          => /\ nsub' # nsub
                => /\ JobAt(nsub') \in Triples
                   /\ \A k \in 1..nsub : JobAt(k) # JobAt(nsub')
                   /\ pending' = pending \cup {JobAt(nsub')}
                   /\ nsub' = nsub + 1 /\ nsub' <= Cardinality(Triples)
             /\ scores' # scores
                => LET written == {t \in Triples : scores'[t] # scores[t]}
                   IN  /\ Cardinality(written) = 1
                       /\ written = pending \ pending'
                       /\ \A t \in written : scores[t] = NaN
             /\ tpc' = "returned"
                => /\ {JobAt(k) : k \in 1..nsub} = Triples
                   /\ scores' = scores
                   /\ ret' = <<sigma_vals[argmax(scores)[2]], C_vals[argmax(scores)[1]]>>]_vars

\* a search over a 2 x 2 grid returned with every cell written, the last
\* fold of a pair before its first
C15_Witness ==
    /\ tpc = "returned" /\ Searched
    /\ Cardinality(Triples) = 8
    /\ raised = {}
    /\ \E c \in 1..2, s \in 1..2 : scores[<<c, s, 1>>] # scores[<<c, s, 2>>]

-----------------------------------------------------------------------------
(* Claims about crossvalidate *)

\* C5: crossvalidate with 2 <= num_folds <= number of bags completes unless
\* the SVM or the tuner fails, and on completion every position of preds has
\* been written exactly once, by the fold whose test set holds it.
C5_EveryFoldPredictsItsTestBags ==
    /\ xval.pc = "raised" => xval.err = "collaborator"
    /\ xval.pc = "done" => \A i \in 1..Len(xval.preds) : xval.writes[i] = 1

\* C11: during one crossvalidate run the divergence estimator is invoked at
\* most once, before the fold loop, not at all when a matrix is passed, and
\* never inside a fold.
C11_DivergencesEstimatedOnce ==
    xval.pc # "idle"
        => /\ xval.estimations + xval.fold_estimations <= 1
           /\ xval.given => xval.estimations + xval.fold_estimations = 0
           /\ xval.fold_estimations = 0

\* C12: the accuracy crossvalidate returns is the number of bags whose entry
\* of the returned prediction vector equals the bag's label, over the number
\* of bags, and lies in [0, 1].
C12_AccuracyIsMatchFraction ==
    xval.pc = "done"
        => /\ xval.acc[1] = Cardinality({i \in 1..Len(xval.bags) :
                                           xval.preds[i] = xval.labels[i]})
           /\ xval.acc[2] = Len(xval.bags)
           /\ 0 <= xval.acc[1] /\ xval.acc[1] <= xval.acc[2] /\ xval.acc[2] > 0

\* a run returned with some, but not all, predictions right
C12_Witness ==
    /\ xval.pc = "done"
    /\ 0 < xval.acc[1] /\ xval.acc[1] < xval.acc[2]
    /\ Len(xval.bags) = 4

-----------------------------------------------------------------------------
(* Claims about the arrays *)

\* C13: a matrix owned by the caller holds the same entries after a call of
\* project_psd with destroy=False, make_km, tune_params, transduct,
\* crossvalidate, fit or predict as before it.
C13_CallerMatrixUnchanged ==
    (frame_call.fn # "none" /\ ~(frame_call.fn = "project_psd" /\ frame_call.destroy))
        => heap.mem[heap.ref["caller"]] = frame_call.before

\* predict ran on a passed matrix and transformed its own array in place
C13_Witness ==
    /\ frame_call.fn = "predict"
    /\ heap.ref["predict.divs"] # heap.ref["caller"]
    /\ heap.mem[heap.ref["predict.divs"]].ops # <<>>

\* C14: the matrix project_psd returns is symmetric and each of its
\* eigenvalues is at least min_eig; when the symmetrized input already meets
\* the floor, it is returned without reconstruction.
C14_SymmetricWithEigenvalueFloor ==
    psd_call.called
        => LET sym == Symmetrize(psd_call.mat)
               out == psd_call.out
           IN  /\ out = MatT(out)
               /\ out[1][2] = Rat(0, 1) \/ out[1][1] = out[2][2]
               /\ \A i \in 1..2 : RLeq(psd_call.min_eig, eigh(out).vals[i])
               /\ RLeq(psd_call.min_eig, ValsMin(eigh(sym).vals))
                     => ~psd_call.rebuilt /\ out = sym

\* a non-symmetric input with an eigenvalue below the floor was rebuilt
C14_Witness ==
    /\ psd_call.called
    /\ psd_call.rebuilt
    /\ psd_call.mat # MatT(psd_call.mat)
    /\ psd_call.out[1][2] # Rat(0, 1)

-----------------------------------------------------------------------------
(* Claims about the estimator and transduct *)

\* C6: predict on an estimator on which no fit has succeeded never returns
\* a prediction vector.
C6_PredictNeedsSuccessfulFit ==
    pred_call.ok => ever_fit

\* predict was called, and failed, on an estimator whose only fits failed, the
\* last of them as late as the final SVM fit (sigma_ and C_ are set)
C6_Witness ==
    /\ ~ever_fit
    /\ Has(est, "sigma_")
    /\ pred_call.stage = "raised"
    /\ ~pred_call.ok

\* C7: without precomputed divergences, the value predict passes to the
\* Gaussian transform for test bag j and training bag i is the average of
\* the two directional divergences of that pair.
C7_CrossBlockAveraged ==
    (pred_call.stage # "none" /\ ~pred_call.given /\ pred_call.to_gauss # <<>>)
        => \A j \in 1..Len(pred_call.data) : \A i \in 1..Len(est["train_bags_"]) :
              pred_call.to_gauss[j][i]
                  = Rat(Div(pred_call.data[j], est["train_bags_"][i])
                        + Div(est["train_bags_"][i], pred_call.data[j]), 2)

StrictlyIncreasing(s) == \A a, b \in 1..Len(s) : a < b => s[a] < s[b]

\* s lists the positions of the bags of y that carry a label, in input order
LabeledInOrder(s, y) ==
    /\ StrictlyIncreasing(s)
    /\ Range(s) = {i \in 1..Len(y) : y[i] # -1}

\* C10: in fit a bag labelled -1 is part of the matrix that is projected at
\* the selected sigma, and is absent from the divergences and labels given to
\* the tuner, from the kernel block and labels of the final SVM and from the
\* retained training bags, which keep the input order of the labeled bags.
C10_SentinelOnlyInProjection ==
    LET f == fit_call
        n == Cardinality({i \in 1..Len(f.y) : f.y[i] # -1})
        s == CHOOSE q \in [1..n -> 1..Len(f.y)] : LabeledInOrder(q, f.y)
        labels == [i \in 1..n |-> f.y[s[i]]]
    IN  /\ f.stage \in {"tune", "svm", "done"}
            => /\ f.tuned_divs = [i \in 1..n |-> [j \in 1..n |-> Div(f.X[s[i]], f.X[s[j]])]]
               /\ f.tuned_labels = labels
               /\ est["train_bags_"] = [i \in 1..n |-> f.X[s[i]]]
        /\ f.stage \in {"svm", "done"}
            => /\ f.km = [gauss_of |-> DivMatrix(f.X), sigma |-> f.tuned_ret[1]]
               /\ f.fit_km = [km |-> f.km, rows |-> s, cols |-> s]
               /\ f.fit_labels = labels
        /\ f.stage = "done"
            => est["svm_"] = [C |-> f.tuned_ret[2], km |-> f.fit_km, labels |-> labels]

\* a fit with a sentinel-labelled bag before labeled ones went through
C10_Witness ==
    /\ fit_call.stage = "done"
    /\ fit_call.y[1] = -1
    /\ Len(fit_call.X) = 4

\* C9: transduct gives the tuner the train x train block and the training
\* labels only, projects the kernel of the whole train+test matrix once at
\* the selected sigma, fits on rows and columns [0, num_train) and predicts
\* on rows [num_train, n) against columns [0, num_train) of that one kernel.
C9_TransductBlocks ==
    LET t == trans_call
        nt == Len(t.train)
        n == Len(t.train) + Len(t.test)
        all == t.train \o t.test
        km == [gauss_of |-> DivMatrix(all), sigma |-> t.tuned_ret[1]]
    IN  /\ t.stage \in {"tune", "svm", "done"}
            => /\ t.tuned_divs = [i \in 1..nt |-> [j \in 1..nt |-> Div(t.train[i], t.train[j])]]
               /\ t.tuned_labels = t.train_labels
        /\ t.stage \in {"svm", "done"}
            => /\ t.km = km
               /\ t.fit_km = [km |-> km, rows |-> [i \in 1..nt |-> i], cols |-> [i \in 1..nt |-> i]]
               /\ t.fit_labels = t.train_labels
               /\ t.fit_C = t.tuned_ret[2]
        /\ t.stage = "done"
            => /\ t.predict_km = [km |-> km, rows |-> [i \in 1..(n - nt) |-> nt + i],
                                  cols |-> [i \in 1..nt |-> i]]
               /\ Len(t.preds) = Len(t.test)

\* a transduct call with two test bags went through
C9_Witness ==
    /\ trans_call.stage = "done"
    /\ Len(trans_call.test) = 2

\* C16: once a fit has succeeded, the retained training bags, sigma_, C_ and
\* the fitted SVM change together and only in a fit that succeeds: a fit that
\* fails leaves the four as they were, and so does predict.
C16_FittedStateFromOneFit ==
    [][(ever_fit /\ ~fit_call'.ok) => est' = est]_vars

-----------------------------------------------------------------------------
(* Claims about the estimation settings *)

\* C17: every divergence estimation made for an estimator, a transduct call
\* or a crossvalidate call uses the fix_mode, tail and min_dist it was given.
C17_GivenSettingsAreUsed ==
    \A i \in 1..Len(settings_call.used) : settings_call.used[i] = settings_call.given

====
